---- MODULE Spec2Model ----
(***************************************************************************)
(* Model of src/patientbedsimulation.cpp: the patient bed simulator.       *)
(* main() checks its argument, connects to the broker, initialises the     *)
(* inclination state and then loops forever: read the local clock, update  *)
(* the inclination state machine, build the telemetry record, publish it   *)
(* and sleep.                                                              *)
(*                                                                         *)
(* Time is in whole seconds.  steady is std::chrono::steady_clock, wall is *)
(* std::chrono::system_clock as seen through std::localtime (seconds since *)
(* local midnight).  Inclinations are degrees (0.0, 30.0, 60.0 as 0, 30,   *)
(* 60), the probability draw is in hundredths (0.20 is 20).  Heart rate    *)
(* and SpO2 are drawn and copied into the record without influencing any   *)
(* control flow; they are left out.                                        *)
(***************************************************************************)
EXTENDS Integers, Sequences, FiniteSets, TLC

\* ---------------------------------------------------------------- bounds
\* number of loop iterations explored
MaxTicks == 3
\* seconds a publish()->wait() may block: not at all, or LongWait
LongWait == 2695
\* seconds that may pass between the meal-window clock read and the
\* timestamp clock read of one iteration
MaxReadGap == 1
\* number of loop iterations explored from the start of a minor incline
MaxLiveTicks == 170

\* ------------------------------------------------------ program constants
QOS == 1
TIMEOUT == 10000
DATA_SEND_INTERVAL_SECONDS == 5
MEAL_INCLINATION_DEGREES == 60
MEAL_INCLINATION_DURATION_MINUTES == 30
MINOR_INCLINATION_DEGREES == 30
MINOR_INCLINATION_DURATION_BASE_MINUTES == 10
MINOR_INCLINATION_DURATION_RAND_ADD_MINUTES == 5
FLAT_STATE_BASE_DURATION_MINUTES == 45
FLAT_STATE_RAND_ADD_MINUTES == 15
PROBABILITY_MINOR_INCLINE == 20

meal_start_times == { <<8, 0>>, <<12, 0>>, <<18, 0>> }

SecondsPerDay == 24 * 60 * 60

\* -------------------------------------------------------------- inputs
\* local time of day (seconds since midnight) at which main() starts
StartTimes == { 7 * 3600 + 14 * 60 + 55,       \* 07:14:55
                8 * 3600 + 29 * 60 + 54,       \* 08:29:54
                11 * 3600 + 59 * 60 + 55,      \* 11:59:55
                17 * 3600 + 15 * 60,           \* 17:15:00
                23 * 3600 }                    \* 23:00:00

\* values of probability_dist(gen), in hundredths
ProbabilityDraws == { 0, 19, 20, 50 }
\* values of flat_duration_rand_addon(gen)
FlatAddons == 0 .. (FLAT_STATE_RAND_ADD_MINUTES - 1)
\* values of minor_incline_duration_rand_addon(gen)
MinorAddons == 0 .. (MINOR_INCLINATION_DURATION_RAND_ADD_MINUTES - 1)
\* blocking times of publish()->wait()
PublishWaits == { 0, LongWait }
\* what becomes of the token of a connect or publish call: it completes, it
\* fails, or the broker never answers
Completions == { "ok", "error", "never" }

VARIABLES
  pc,                                  \* position in main()
  argc,
  exitCode,                            \* -1 while the process runs
  connectResult,                       \* "none", "ok", "error", "blocked"
  disconnected,                        \* client.disconnect() was called
  steady,                              \* steady_clock::now()
  wall,                                \* system_clock, local seconds of day
  currentInclinationState,
  currentInclination,
  lastNonMealStateChangeTime,
  currentNonMealStateDurationSeconds,
  inMealInclineOverride,
  current_hour_local,
  current_minute_local,
  is_currently_meal_time_slot,
  now_steady,
  draws,                               \* random draws of this iteration
  tickLog,                             \* stdout lines of this iteration
  telemetryData,                       \* the record of this iteration
  pubmsg,                              \* the message of this iteration
  notConnectedWarning,                 \* stderr: "Client not connected"
  publishResult,                       \* "none", "ok", "error", "blocked"
  publishAttempts,                     \* calls of client.publish
  ticks                                \* loop iterations started

vars == << pc, argc, exitCode, connectResult, disconnected, steady, wall,
           currentInclinationState, currentInclination,
           lastNonMealStateChangeTime, currentNonMealStateDurationSeconds,
           inMealInclineOverride, current_hour_local, current_minute_local,
           is_currently_meal_time_slot, now_steady, draws, tickLog,
           telemetryData, pubmsg, notConnectedWarning, publishResult,
           publishAttempts, ticks >>

smVars == << currentInclinationState, currentInclination,
             lastNonMealStateChangeTime, currentNonMealStateDurationSeconds,
             inMealInclineOverride >>

tickLocals == << current_hour_local, current_minute_local,
                 is_currently_meal_time_slot, now_steady >>

NoRecord == [ inclination |-> -1, bedState |-> "", timestamp |-> << >> ]

NoMessage == [ topic |-> "", payload |-> NoRecord, qos |-> 0 ]

\* lines 178 and 295-296: make_message(topic, payload) and set_qos(QOS)
MakeMessage(payload) ==
  [ topic |-> "PatientBed/<N>/data", payload |-> payload, qos |-> QOS ]

\* ------------------------------------------------------- pure functions
\* std::localtime: tm_hour, tm_min, tm_sec of a local time of day
TmHour(t) == t \div 3600
TmMin(t) == (t % 3600) \div 60
TmSec(t) == t % 60

\* getCurrentTimestampLocal: "%H:%M:%S" part of the formatted local time
getCurrentTimestampLocal(t) == << TmHour(t), TmMin(t), TmSec(t) >>

\* variant: a window that excludes its first minute (> for >=)
IsMealTimeSlotStrictStart(hour, minute) ==
  \E meal_time \in meal_start_times :
    LET current_total == hour * 60 + minute
        meal_start == meal_time[1] * 60 + meal_time[2]
        meal_end == meal_start + MEAL_INCLINATION_DURATION_MINUTES
    IN  current_total > meal_start /\ current_total < meal_end

\* the meal-window loop of main()
IsMealTimeSlot(hour, minute) ==
  \E meal_time \in meal_start_times :
    LET current_total == hour * 60 + minute
        meal_start == meal_time[1] * 60 + meal_time[2]
        meal_end == meal_start + MEAL_INCLINATION_DURATION_MINUTES
    IN  current_total >= meal_start /\ current_total < meal_end

\* variant: an addon range shifted by one minute
FlatDurationShifted(addon) ==
  (FLAT_STATE_BASE_DURATION_MINUTES + addon + 1) * 60

FlatDuration(addon) == (FLAT_STATE_BASE_DURATION_MINUTES + addon) * 60

MinorDuration(addon) == (MINOR_INCLINATION_DURATION_BASE_MINUTES + addon) * 60

\* duration_cast<seconds>(now_steady - lastNonMealStateChangeTime).count()
ElapsedSeconds(now, last) == now - last

\* variant: the operands exchanged
DwellExpiredSwapped(elapsed, duration) == duration >= elapsed

\* variant: the duration taken in minutes
DwellExpiredInMinutes(elapsed, duration) == elapsed >= duration \div 60

DwellExpired(elapsed, duration) == elapsed >= duration

\* variant: <= for <
MinorInclineChosenInclusive(p) == p <= PROBABILITY_MINOR_INCLINE

MinorInclineChosen(p) == p < PROBABILITY_MINOR_INCLINE

\* variant: the two labels exchanged
BedStateLabelSwapped(state) == IF state = "FLAT" THEN "INCLINED" ELSE "FLAT"

\* Telemetry::Telemetry: the bedState label
BedStateLabel(state) == IF state = "FLAT" THEN "FLAT" ELSE "INCLINED"

\* variant: a loop that ends at the first failed publish
LoopConditionUntilFailure == publishResult # "error"

\* while (true)
LoopCondition == TRUE

\* variant: a catch clause that logs and carries on
ConnectOutcomeCarriesOn(ok) ==
  IF ok
  THEN [ pc |-> "init", result |-> "ok", exit |-> -1 ]
  ELSE [ pc |-> "init", result |-> "error", exit |-> -1 ]

\* lines 199-204: the try block around connect and its catch clause
ConnectOutcome(ok) ==
  IF ok
  THEN [ pc |-> "init", result |-> "ok", exit |-> -1 ]
  ELSE [ pc |-> "exited", result |-> "error", exit |-> 1 ]

\* variant: a catch clause that ends the process
PublishOutcomeFatal(ok) ==
  IF ok
  THEN [ pc |-> "sleep", result |-> "ok", exit |-> -1 ]
  ELSE [ pc |-> "exited", result |-> "error", exit |-> 1 ]

\* lines 298-305: the try block around publish and its catch clause
PublishOutcome(ok) ==
  IF ok
  THEN [ pc |-> "sleep", result |-> "ok", exit |-> -1 ]
  ELSE [ pc |-> "sleep", result |-> "error", exit |-> -1 ]

\* lines 200 and 302: ->wait() is called without a timeout (TIMEOUT is not
\* used anywhere), so it returns only when the token completes or fails
WaitReturns(completion) == completion # "never"

\* variant: no publish while the client reports not connected
PublishAttemptedIfConnected(connected) == connected

\* lines 299-302: publish is called after the is_connected test, whatever
\* its result
PublishAttempted(connected) == TRUE

\* The inclination state as a record, and the branches of the update.
SM(st, incl, last, dur, ovr, log, dr) ==
  [ state |-> st, inclination |-> incl, last |-> last, duration |-> dur,
    override |-> ovr, log |-> log, draws |-> dr ]

\* variant: the log line without its test of the flag
MealBranchLogsEachTick(s) ==
  SM("INCLINED", MEAL_INCLINATION_DEGREES, s.last, s.duration, TRUE,
     << "INCLINED for meal" >>, << >>)

\* lines 250-256
MealBranch(s) ==
  SM("INCLINED", MEAL_INCLINATION_DEGREES, s.last, s.duration, TRUE,
     IF ~s.override THEN << "INCLINED for meal" >> ELSE << >>, << >>)

\* variant: the meal exit without a new duration
MealExitBranchReusesDuration(s, now, fa) ==
  SM("FLAT", 0, now, s.duration, FALSE, << "FLAT after meal" >>, << >>)

\* variant: the meal exit without the restart of the dwell timer
MealExitBranchKeepsTimer(s, now, fa) ==
  SM("FLAT", 0, s.last, FlatDuration(fa), FALSE,
     << "FLAT after meal" >>, << << "flat", fa >> >>)

\* lines 258-264
MealExitBranch(s, now, fa) ==
  SM("FLAT", 0, now, FlatDuration(fa), FALSE,
     << "FLAT after meal" >>, << << "flat", fa >> >>)

\* variant: a log line for the FLAT outcome
FlatExpiryBranchLogsSelfReset(s, now, p, fa, ma) ==
  IF MinorInclineChosen(p)
  THEN SM("INCLINED", MINOR_INCLINATION_DEGREES, now, MinorDuration(ma),
          s.override, << "INCLINED (minor)" >>,
          << << "prob", p >>, << "minor", ma >> >>)
  ELSE SM("FLAT", 0, now, FlatDuration(fa), s.override, << "FLAT" >>,
          << << "prob", p >>, << "flat", fa >> >>)

\* variant: the FLAT outcome without the timer reset
FlatExpiryBranchNoSelfReset(s, now, p, fa, ma) ==
  IF MinorInclineChosen(p)
  THEN SM("INCLINED", MINOR_INCLINATION_DEGREES, now, MinorDuration(ma),
          s.override, << "INCLINED (minor)" >>,
          << << "prob", p >>, << "minor", ma >> >>)
  ELSE SM("FLAT", 0, s.last, s.duration, s.override, << >>,
          << << "prob", p >>, << "flat", fa >> >>)

\* lines 269-279 and 286
FlatExpiryBranch(s, now, p, fa, ma) ==
  IF MinorInclineChosen(p)
  THEN SM("INCLINED", MINOR_INCLINATION_DEGREES, now, MinorDuration(ma),
          s.override, << "INCLINED (minor)" >>,
          << << "prob", p >>, << "minor", ma >> >>)
  ELSE SM("FLAT", 0, now, FlatDuration(fa), s.override, << >>,
          << << "prob", p >>, << "flat", fa >> >>)

\* variant: the end of a minor incline without the restart of the timer
InclinedExpiryBranchKeepsTimer(s, now, fa) ==
  SM("FLAT", 0, s.last, FlatDuration(fa), s.override,
     << "FLAT after minor incline" >>, << << "flat", fa >> >>)

\* variant: a minor incline that is started again when it expires
InclinedExpiryBranchStartsAgain(s, now, fa) ==
  SM(s.state, s.inclination, now, s.duration, s.override, << >>, << >>)

\* variant: the inclination reset without the state reset
InclinedExpiryBranchKeepsState(s, now, fa) ==
  SM(s.state, 0, now, FlatDuration(fa), s.override,
     << "FLAT after minor incline" >>, << << "flat", fa >> >>)

\* lines 280-286
InclinedExpiryBranch(s, now, fa) ==
  SM("FLAT", 0, now, FlatDuration(fa), s.override,
     << "FLAT after minor incline" >>, << << "flat", fa >> >>)

\* lines 250-289
UpdateState(s, meal, now, p, fa, ma) ==
  IF meal
  THEN MealBranch(s)
  ELSE IF s.override
       THEN MealExitBranch(s, now, fa)
       ELSE IF DwellExpired(ElapsedSeconds(now, s.last), s.duration)
            THEN IF s.state = "FLAT"
                 THEN FlatExpiryBranch(s, now, p, fa, ma)
                 ELSE InclinedExpiryBranch(s, now, fa)
            ELSE SM(s.state, s.inclination, s.last, s.duration, s.override,
                    << >>, << >>)

\* the results of the update over every value of the random draws
UpdateOutcomes(s, meal, now) ==
  { UpdateState(s, meal, now, p, fa, ma) :
      p \in ProbabilityDraws, fa \in FlatAddons, ma \in MinorAddons }

CurrentSM ==
  SM(currentInclinationState, currentInclination,
     lastNonMealStateChangeTime, currentNonMealStateDurationSeconds,
     inMealInclineOverride, << >>, << >>)

\* the passing of d seconds on both clocks
Advance(d) ==
  /\ steady' = steady + d
  /\ wall' = (wall + d) % SecondsPerDay

\* ------------------------------------------------------------------ Init
Init ==
  /\ pc = "main"
  /\ argc \in { 1, 2 }
  /\ exitCode = -1
  /\ connectResult = "none"
  /\ disconnected = FALSE
  /\ steady = 0
  /\ wall \in StartTimes
  /\ currentInclinationState = "FLAT"
  /\ currentInclination = 0
  /\ lastNonMealStateChangeTime = 0
  /\ currentNonMealStateDurationSeconds = 0
  /\ inMealInclineOverride = FALSE
  /\ current_hour_local = 0
  /\ current_minute_local = 0
  /\ is_currently_meal_time_slot = FALSE
  /\ now_steady = 0
  /\ draws = << >>
  /\ tickLog = << >>
  /\ telemetryData = NoRecord
  /\ pubmsg = NoMessage
  /\ notConnectedWarning = FALSE
  /\ publishResult = "none"
  /\ publishAttempts = 0
  /\ ticks = 0

\* --------------------------------------------------------------- actions
\* lines 171-174: the argument check
CheckArgs ==
  /\ pc = "main"
  /\ IF argc < 2
     THEN pc' = "exited" /\ exitCode' = 1
     ELSE pc' = "connect" /\ exitCode' = exitCode
  /\ UNCHANGED << argc, connectResult, disconnected, steady, wall, smVars,
                  tickLocals, draws, tickLog, telemetryData, pubmsg,
                  notConnectedWarning, publishResult, publishAttempts,
                  ticks >>

\* lines 199-204: client.connect(conn_opts)->wait()
Connect ==
  /\ pc = "connect"
  /\ connectResult # "blocked"
  /\ \E c \in Completions :
       IF WaitReturns(c)
       THEN /\ pc' = ConnectOutcome(c = "ok").pc
            /\ connectResult' = ConnectOutcome(c = "ok").result
            /\ exitCode' = ConnectOutcome(c = "ok").exit
       ELSE /\ connectResult' = "blocked"
            /\ UNCHANGED << pc, exitCode >>
  /\ UNCHANGED << argc, disconnected, steady, wall, smVars, tickLocals,
                  draws, tickLog, telemetryData, pubmsg,
                  notConnectedWarning, publishResult, publishAttempts,
                  ticks >>

\* lines 206-218: the random source and the initial inclination state
InitSimulation ==
  /\ pc = "init"
  /\ \E fa \in FlatAddons :
       /\ currentInclinationState' = "FLAT"
       /\ currentInclination' = 0
       /\ lastNonMealStateChangeTime' = steady
       /\ currentNonMealStateDurationSeconds' = FlatDuration(fa)
       /\ inMealInclineOverride' = FALSE
  /\ pc' = "loop"
  /\ UNCHANGED << argc, exitCode, connectResult, disconnected, steady, wall,
                  tickLocals, draws, tickLog, telemetryData, pubmsg,
                  notConnectedWarning, publishResult, publishAttempts,
                  ticks >>

\* lines 220-248: the loop head, the local clock read and the meal test;
\* lines 310-318 when the loop condition fails; at most maxTicks iterations
ReadClockUpTo(maxTicks) ==
  /\ pc = "loop"
  /\ ticks < maxTicks
  /\ IF LoopCondition
     THEN /\ pc' = "update"
          /\ ticks' = ticks + 1
          /\ current_hour_local' = TmHour(wall)
          /\ current_minute_local' = TmMin(wall)
          /\ is_currently_meal_time_slot' =
               IsMealTimeSlot(TmHour(wall), TmMin(wall))
          /\ now_steady' = steady
          /\ draws' = << >>
          /\ tickLog' = << >>
          /\ telemetryData' = NoRecord
          /\ pubmsg' = NoMessage
          /\ notConnectedWarning' = FALSE
          /\ publishResult' = "none"
          /\ UNCHANGED << exitCode, disconnected >>
     ELSE /\ pc' = "exited"
          /\ disconnected' = TRUE
          /\ exitCode' = 0
          /\ UNCHANGED << ticks, tickLocals, draws, tickLog, telemetryData,
                          pubmsg, notConnectedWarning, publishResult >>
  /\ UNCHANGED << argc, connectResult, steady, wall, smVars,
                  publishAttempts >>

ReadClock == ReadClockUpTo(MaxTicks)

\* lines 250-289: the inclination state machine
UpdateInclination ==
  /\ pc = "update"
  /\ \E n \in UpdateOutcomes(CurrentSM, is_currently_meal_time_slot,
                             now_steady) :
           /\ currentInclinationState' = n.state
           /\ currentInclination' = n.inclination
           /\ lastNonMealStateChangeTime' = n.last
           /\ currentNonMealStateDurationSeconds' = n.duration
           /\ inMealInclineOverride' = n.override
           /\ tickLog' = n.log
           /\ draws' = n.draws
  /\ pc' = "build"
  /\ UNCHANGED << argc, exitCode, connectResult, disconnected, steady, wall,
                  tickLocals, telemetryData, pubmsg, notConnectedWarning,
                  publishResult, publishAttempts, ticks >>

\* lines 292-296: the record, its timestamp read from the local clock, and
\* the message; gaps are the seconds that may have passed since the clock
\* read of the meal test
BuildTelemetryWith(gaps) ==
  /\ pc = "build"
  /\ \E gap \in gaps :
       /\ Advance(gap)
       /\ telemetryData' =
            [ inclination |-> currentInclination,
              bedState |-> BedStateLabel(currentInclinationState),
              timestamp |-> getCurrentTimestampLocal(wall') ]
  /\ pubmsg' = MakeMessage(telemetryData')
  /\ pc' = "publish"
  /\ UNCHANGED << argc, exitCode, connectResult, disconnected, smVars,
                  tickLocals, draws, tickLog, notConnectedWarning,
                  publishResult, publishAttempts, ticks >>

BuildTelemetry == BuildTelemetryWith(0 .. MaxReadGap)

\* lines 298-305: the is_connected test, client.publish(pubmsg)->wait() and
\* the catch clause; completions and waits are what the transport may do
PublishWith(completions, waits) ==
  /\ pc = "publish"
  /\ publishResult # "blocked"
  /\ \E connected \in BOOLEAN, c \in completions, w \in waits :
       /\ notConnectedWarning' = ~connected
       /\ IF PublishAttempted(connected)
          THEN /\ publishAttempts' = publishAttempts + 1
               /\ IF WaitReturns(c)
                  THEN /\ Advance(w)
                       /\ publishResult' = PublishOutcome(c = "ok").result
                       /\ pc' = PublishOutcome(c = "ok").pc
                       /\ exitCode' = PublishOutcome(c = "ok").exit
                  ELSE /\ publishResult' = "blocked"
                       /\ UNCHANGED << pc, exitCode, steady, wall >>
          ELSE /\ pc' = "sleep"
               /\ UNCHANGED << publishAttempts, publishResult, exitCode,
                               steady, wall >>
  /\ UNCHANGED << argc, connectResult, disconnected, smVars,
                  tickLocals, draws, tickLog, telemetryData, pubmsg, ticks >>

Publish == PublishWith(Completions, PublishWaits)

\* line 307: sleep_for(DATA_SEND_INTERVAL_SECONDS)
Sleep ==
  /\ pc = "sleep"
  /\ Advance(DATA_SEND_INTERVAL_SECONDS)
  /\ pc' = "loop"
  /\ UNCHANGED << argc, exitCode, connectResult, disconnected, smVars,
                  tickLocals, draws, tickLog, telemetryData, pubmsg,
                  notConnectedWarning, publishResult, publishAttempts,
                  ticks >>

Next ==
  \/ CheckArgs
  \/ Connect
  \/ InitSimulation
  \/ ReadClock
  \/ UpdateInclination
  \/ BuildTelemetry
  \/ Publish
  \/ Sleep

Spec == Init /\ [][Next]_vars

\* ------------------------------------------- the loop in a minor incline
\* The loop from the head of the iteration that follows the start of a minor
\* incline, with a transport that answers every publish at once: iterations
\* keep occurring, 5 seconds apart.  ticks and publishAttempts count from
\* this state.
LiveStartTimes == { 7 * 3600 + 55 * 60 + 5,        \* 07:55:05
                    17 * 3600 + 49 * 60 + 5,       \* 17:49:05
                    23 * 3600 + 5 }                \* 23:00:05

LiveInit ==
  /\ pc = "loop"
  /\ argc = 2
  /\ exitCode = -1
  /\ connectResult = "ok"
  /\ disconnected = FALSE
  /\ steady = DATA_SEND_INTERVAL_SECONDS
  /\ wall \in LiveStartTimes
  /\ currentInclinationState = "INCLINED"
  /\ currentInclination = MINOR_INCLINATION_DEGREES
  /\ lastNonMealStateChangeTime = 0
  /\ \E ma \in MinorAddons :
       /\ currentNonMealStateDurationSeconds = MinorDuration(ma)
       /\ draws = << << "prob", 0 >>, << "minor", ma >> >>
  /\ inMealInclineOverride = FALSE
  /\ current_hour_local = TmHour(wall - DATA_SEND_INTERVAL_SECONDS)
  /\ current_minute_local = TmMin(wall - DATA_SEND_INTERVAL_SECONDS)
  /\ is_currently_meal_time_slot = FALSE
  /\ now_steady = 0
  /\ tickLog = << "INCLINED (minor)" >>
  /\ telemetryData =
       [ inclination |-> MINOR_INCLINATION_DEGREES,
         bedState |-> BedStateLabel("INCLINED"),
         timestamp |->
           getCurrentTimestampLocal(wall - DATA_SEND_INTERVAL_SECONDS) ]
  /\ pubmsg = MakeMessage(telemetryData)
  /\ notConnectedWarning = FALSE
  /\ publishResult = "ok"
  /\ publishAttempts = 0
  /\ ticks = 0

LiveReadClock == ReadClockUpTo(MaxLiveTicks)

LiveBuildTelemetry == BuildTelemetryWith({ 0 })

LivePublish == PublishWith({ "ok", "error" }, { 0 })

LiveNext ==
  \/ LiveReadClock
  \/ UpdateInclination
  \/ LiveBuildTelemetry
  \/ LivePublish
  \/ Sleep

LiveSpec == LiveInit /\ [][LiveNext]_vars /\ WF_vars(LiveNext)

\* ------------------------------------------------------------ properties
\* The meal windows and the duration ranges as the specification states
\* them: minutes since midnight, seconds.
SpecMealStarts == { 8 * 60, 12 * 60, 18 * 60 }

SpecInMealWindow(hour, minute) ==
  \E start \in SpecMealStarts :
    start <= hour * 60 + minute /\ hour * 60 + minute < start + 30

SpecFlatDwell == { d \in 2700 .. 3599 : TRUE }

SpecMinorDwell == { d \in 600 .. 899 : TRUE }

\* the state-machine update of this iteration has been done
AfterUpdate == pc \in { "build", "publish", "sleep" }

\* the record of this iteration has been built
AfterBuild == pc \in { "publish", "sleep" }

\* the update is about to run outside every meal window
UpdateOutsideMeal ==
  /\ pc = "update"
  /\ ~SpecInMealWindow(current_hour_local, current_minute_local)

\* the update is about to run outside every meal window, not leaving one,
\* with the dwell timer expired
UpdateAtExpiry ==
  /\ UpdateOutsideMeal
  /\ ~inMealInclineOverride
  /\ now_steady - lastNonMealStateChangeTime
       >= currentNonMealStateDurationSeconds

HasDraw(d, kind) == \E i \in 1 .. Len(d) : d[i][1] = kind

\* C1 (meal precedence): in an iteration whose local hour:minute lies in
\* [start, start+30) for a meal start 08:00, 12:00 or 18:00, the state after
\* the update has inclination 60 and state INCLINED, and the record built
\* and published by that iteration carries inclination 60 and "INCLINED".
C1_MealPrecedence ==
  (AfterUpdate /\ SpecInMealWindow(current_hour_local, current_minute_local))
    => /\ currentInclination = 60
       /\ currentInclinationState = "INCLINED"
       /\ AfterBuild => /\ telemetryData.inclination = 60
                        /\ telemetryData.bedState = "INCLINED"

\* a meal window is entered in an iteration whose dwell timer had expired
C1_Witness ==
  /\ pc = "sleep"
  /\ SpecInMealWindow(current_hour_local, current_minute_local)
  /\ tickLog = << "INCLINED for meal" >>
  /\ now_steady - lastNonMealStateChangeTime
       >= currentNonMealStateDurationSeconds
  /\ telemetryData.inclination = 60

C3_MinorEndsFlat ==
  [][ (UpdateAtExpiry /\ currentInclinationState = "INCLINED"
                      /\ currentInclination = 30)
        => /\ currentInclinationState' = "FLAT"
           /\ currentInclination' = 0
           /\ lastNonMealStateChangeTime' = now_steady
           /\ currentNonMealStateDurationSeconds' \in SpecFlatDwell
           /\ ~HasDraw(draws', "prob")
           /\ Len(draws') = 1 /\ draws'[1][1] = "flat" ]_vars

\* the bed has just been set FLAT after a minor incline
C3_Witness ==
  /\ pc = "build"
  /\ tickLog = << "FLAT after minor incline" >>
  /\ currentInclinationState = "FLAT"
  /\ currentInclination = 0
  /\ lastNonMealStateChangeTime = now_steady

\* C4 (FLAT expiry, incline branch): an update at expiry that finds the bed
\* FLAT takes one probability draw; a draw < 0.20 gives INCLINED at 30 with a
\* duration in [600, 900), a draw >= 0.20 gives FLAT at 0; either way the
\* dwell timer restarts at this iteration, and there is no third outcome.
C4_FlatExpiry ==
  [][ (UpdateAtExpiry /\ currentInclinationState = "FLAT")
        => /\ Len(draws') = 2 /\ draws'[1][1] = "prob"
           /\ lastNonMealStateChangeTime' = now_steady
           /\ IF draws'[1][2] < 20
              THEN /\ currentInclinationState' = "INCLINED"
                   /\ currentInclination' = 30
                   /\ currentNonMealStateDurationSeconds' \in SpecMinorDwell
              ELSE /\ currentInclinationState' = "FLAT"
                   /\ currentInclination' = 0 ]_vars

\* the bed has just been minor-inclined on a draw below 0.20
C4_Witness ==
  /\ pc = "build"
  /\ tickLog = << "INCLINED (minor)" >>
  /\ currentInclination = 30
  /\ Len(draws) = 2
  /\ draws[1] = << "prob", 19 >>
  /\ lastNonMealStateChangeTime = now_steady

\* C5 (FLAT self-reset): an update at expiry that finds the bed FLAT and
\* draws a probability >= 0.20 leaves the bed FLAT at 0 and still restarts
\* the dwell timer at this iteration with a fresh duration in [2700, 3600);
\* until that duration has elapsed, a later update outside the meal windows
\* changes nothing.
C5_FlatSelfReset ==
  [][ /\ (UpdateAtExpiry /\ currentInclinationState = "FLAT"
            /\ HasDraw(draws', "prob") /\ draws'[1][2] >= 20)
        => /\ currentInclinationState' = "FLAT"
           /\ currentInclination' = 0
           /\ inMealInclineOverride' = FALSE
           /\ lastNonMealStateChangeTime' = now_steady
           /\ currentNonMealStateDurationSeconds' \in SpecFlatDwell
           /\ draws'[2][1] = "flat"
           /\ currentNonMealStateDurationSeconds'
                = (45 + draws'[2][2]) * 60
      /\ (UpdateOutsideMeal /\ ~inMealInclineOverride
            /\ currentInclinationState = "FLAT"
            /\ now_steady - lastNonMealStateChangeTime
                 < currentNonMealStateDurationSeconds)
        => UNCHANGED smVars ]_vars

\* the bed has stayed FLAT on a draw of 0.50 and its dwell timer has been
\* restarted
C5_Witness ==
  /\ pc = "build"
  /\ ~is_currently_meal_time_slot
  /\ currentInclinationState = "FLAT"
  /\ Len(draws) = 2
  /\ draws[1] = << "prob", 50 >>
  /\ tickLog = << >>
  /\ lastNonMealStateChangeTime = now_steady
  /\ now_steady > 0

\* the positions inside the loop
InLoop == pc \in { "loop", "update", "build", "publish", "sleep" }

SpecReported == { << 0, "FLAT" >>, << 30, "INCLINED" >>, << 60, "INCLINED" >> }

\* C6 (dwell duration ranges): inside the loop, a duration drawn for minor
\* incline is (10 + addon) * 60 and lies in [600, 900), a duration drawn for
\* FLAT is (45 + addon) * 60 and lies in [2700, 3600); whenever the bed is at
\* 30 degrees the current duration is in [600, 900), and whenever it is FLAT
\* with inMealInclineOverride false it is in [2700, 3600).
C6_DwellRanges ==
  InLoop =>
    /\ currentInclination = 30
         => currentNonMealStateDurationSeconds \in SpecMinorDwell
    /\ (currentInclinationState = "FLAT" /\ ~inMealInclineOverride)
         => currentNonMealStateDurationSeconds \in SpecFlatDwell
    /\ \A i \in 1 .. Len(draws) :
         /\ draws[i][1] = "minor"
              => /\ currentNonMealStateDurationSeconds \in SpecMinorDwell
                 /\ currentNonMealStateDurationSeconds
                      = (10 + draws[i][2]) * 60
         /\ draws[i][1] = "flat"
              => /\ currentNonMealStateDurationSeconds \in SpecFlatDwell
                 /\ currentNonMealStateDurationSeconds
                      = (45 + draws[i][2]) * 60

\* the longest FLAT duration has just been drawn on leaving a minor incline
C6_Witness ==
  /\ pc = "build"
  /\ tickLog = << "FLAT after minor incline" >>
  /\ draws = << << "flat", 14 >> >>
  /\ currentNonMealStateDurationSeconds = 3540

\* C7 (reported values): every record handed to publish has (inclination,
\* bedState) in {(0, FLAT), (30, INCLINED), (60, INCLINED)} and equals the
\* post-update state, and inside the loop (currentInclination,
\* currentInclinationState) is always one of these three pairs.
C7_ReportedValues ==
  /\ InLoop
       => << currentInclination, currentInclinationState >> \in SpecReported
  /\ AfterBuild
       => /\ << telemetryData.inclination, telemetryData.bedState >>
               \in SpecReported
          /\ telemetryData.inclination = currentInclination
          /\ telemetryData.bedState = currentInclinationState

\* a record of a minor incline is about to be published
C7_Witness ==
  /\ pc = "publish"
  /\ telemetryData.inclination = 30
  /\ telemetryData.bedState = "INCLINED"

\* C8 (publish failure is non-fatal): a publish step, failed or not, keeps
\* the process running and leaves the five inclination variables as the
\* update set them; a failed publish goes on to the sleep, the sleep takes
\* at least the fixed interval and leads to the loop head, the loop head
\* starts the next iteration, and that iteration goes through update and
\* build to a new publish attempt.
C8_PublishFailureNonFatal ==
  [][ /\ pc = "publish"
        => /\ exitCode' = -1
           /\ publishAttempts' = publishAttempts + 1
           /\ UNCHANGED smVars
      /\ (pc = "publish" /\ publishResult' = "error")
        => pc' = "sleep"
      /\ (pc = "sleep" /\ publishResult = "error")
        => /\ pc' = "loop"
           /\ exitCode' = -1
           /\ steady' >= steady + 5
           /\ UNCHANGED smVars
      /\ (pc = "loop" /\ publishResult = "error")
        => /\ pc' = "update"
           /\ exitCode' = -1
           /\ ticks' = ticks + 1
           /\ UNCHANGED smVars
      /\ pc = "update" => pc' = "build"
      /\ pc = "build" => pc' = "publish" ]_vars

\* the loop head is reached again after a publish failure in the third
\* iteration or later
C8_Witness ==
  /\ pc = "loop"
  /\ publishResult = "error"
  /\ publishAttempts >= 3
  /\ exitCode = -1

\* C9 (connection failure is fatal): after a failed connect the process has
\* exited with code 1, no iteration has run and no publish was attempted;
\* whenever the loop is entered or a publish has been attempted, connect has
\* returned successfully.
C9_ConnectFailureFatal ==
  /\ connectResult = "error"
       => /\ pc = "exited"
          /\ exitCode = 1
          /\ ticks = 0
          /\ publishAttempts = 0
          /\ telemetryData = NoRecord
  /\ (InLoop \/ pc = "init" \/ publishAttempts > 0 \/ ticks > 0)
       => connectResult = "ok"

\* the process has exited on a failed connect
C9_Witness ==
  /\ connectResult = "error"
  /\ pc = "exited"
  /\ exitCode = 1

\* C10 (exit outcomes): the process exits only with code 1, either on a
\* missing argument before any connect attempt or on a failed connect, in
\* both cases before the first iteration; once an iteration has started the
\* process is inside the loop and running, disconnect is never called and
\* exit code 0 never occurs.
C10_ExitOutcomes ==
  /\ exitCode \in { -1, 1 }
  /\ (pc = "exited") <=> (exitCode = 1)
  /\ pc = "exited"
       => /\ ticks = 0
          /\ publishAttempts = 0
          /\ \/ argc < 2 /\ connectResult = "none"
             \/ argc >= 2 /\ connectResult = "error"
  /\ ~disconnected
  /\ ticks > 0 => (InLoop /\ exitCode = -1)

\* the loop head is reached again after three iterations, one of them with a
\* failed publish
C10_Witness ==
  /\ pc = "loop"
  /\ ticks >= 3
  /\ publishResult = "error"
  /\ steady >= 2 * LongWait
  /\ exitCode = -1

\* C11 (waits are bounded by the timeout): every publish call returns, as a
\* success or as a failure, within TIMEOUT milliseconds, also when the broker
\* never acknowledges the message, so that every publish attempt is followed
\* by the sleep and the next iteration.
C11_WaitsBoundedByTimeout ==
  [][ pc = "publish"
        => /\ pc' = "sleep"
           /\ publishResult' \in { "ok", "error" }
           /\ (steady' - steady) * 1000 <= TIMEOUT ]_vars

\* C12 (one publish attempt per iteration, in fixed order): the steps of an
\* iteration follow each other as update, build, publish, sleep; the record
\* and the message are built from the post-update inclination and state,
\* the message has QoS 1 and the device topic, and it is the message handed
\* to publish; the publish step makes exactly one attempt whether or not the
\* client reported to be connected, no other step makes one, and the sleep
\* takes the fixed interval.
C12_OnePublishPerTick ==
  [][ /\ pc = "loop"
        => (pc' = "update" /\ publishAttempts' = publishAttempts)
      /\ pc = "update"
        => (pc' = "build" /\ publishAttempts' = publishAttempts)
      /\ pc = "build"
        => /\ pc' = "publish"
           /\ publishAttempts' = publishAttempts
           /\ UNCHANGED smVars
           /\ telemetryData'.inclination = currentInclination
           /\ telemetryData'.bedState
                = (IF currentInclinationState = "FLAT"
                   THEN "FLAT" ELSE "INCLINED")
           /\ pubmsg'.payload = telemetryData'
           /\ pubmsg'.qos = 1
           /\ pubmsg'.topic = "PatientBed/<N>/data"
      /\ pc = "publish"
        => /\ publishAttempts' = publishAttempts + 1
           /\ publishAttempts' = ticks
           /\ UNCHANGED << telemetryData, pubmsg, smVars, ticks >>
           /\ pubmsg.payload.inclination = currentInclination
           /\ \/ pc' = "sleep" /\ publishResult' \in { "ok", "error" }
              \/ pc' = "publish" /\ publishResult' = "blocked"
      /\ pc = "sleep"
        => /\ pc' = "loop"
           /\ publishAttempts' = publishAttempts
           /\ publishAttempts = ticks
           /\ steady' = steady + 5 ]_vars

\* a publish attempt has been made, and has succeeded, in the second
\* iteration or later although the client reported not to be connected
C12_Witness ==
  /\ pc = "sleep"
  /\ notConnectedWarning
  /\ publishResult = "ok"
  /\ ticks >= 2
  /\ publishAttempts = ticks
  /\ pubmsg.qos = 1

\* C13 (no change before expiry): an update outside every meal window, with
\* inMealInclineOverride false and less time elapsed since
\* lastNonMealStateChangeTime than the dwell duration, leaves the five
\* inclination variables unchanged, takes no random draw and logs nothing.
C13_NoChangeBeforeExpiry ==
  [][ (UpdateOutsideMeal /\ ~inMealInclineOverride
         /\ now_steady - lastNonMealStateChangeTime
              < currentNonMealStateDurationSeconds)
        => /\ UNCHANGED smVars
           /\ draws' = << >>
           /\ tickLog' = << >> ]_vars

\* a minor incline of 840 seconds has been left alone by an update 5 seconds
\* or more after it began
C13_Witness ==
  /\ pc = "build"
  /\ ~SpecInMealWindow(current_hour_local, current_minute_local)
  /\ currentInclination = 30
  /\ currentNonMealStateDurationSeconds = 840
  /\ now_steady - lastNonMealStateChangeTime >= 5
  /\ draws = << >>
  /\ tickLog = << >>

\* a dwell duration is among the draws
HasDwellDraw(d) == HasDraw(d, "flat") \/ HasDraw(d, "minor")

\* the log line of a change of regime, the regime given by its degrees
SpecTransitionLog(from, to) ==
  IF from = to THEN << >>
  ELSE IF to = 60 THEN << "INCLINED for meal" >>
  ELSE IF from = 60 THEN << "FLAT after meal" >>
  ELSE IF to = 30 THEN << "INCLINED (minor)" >>
  ELSE << "FLAT after minor incline" >>

\* C14 (transition logging): an update logs one line if the regime (0, 30 or
\* 60 degrees) after it differs from the regime before it, the line of that
\* transition, and no line otherwise; no iteration logs more than one
\* transition line, as no other step of it logs one.
C14_TransitionLogging ==
  [][ /\ pc = "update"
        => /\ Len(tickLog') <= 1
           /\ (Len(tickLog') = 1)
                <=> (currentInclination' # currentInclination)
           /\ tickLog'
                = SpecTransitionLog(currentInclination, currentInclination')
      /\ pc \in { "build", "publish", "sleep" }
        => (tickLog' = tickLog /\ currentInclination' = currentInclination)
    ]_vars

\* the bed has stayed FLAT on a draw of exactly 0.20, the dwell timer has
\* been restarted and nothing has been logged
C14_Witness ==
  /\ pc = "build"
  /\ currentInclination = 0
  /\ Len(draws) = 2
  /\ draws[1] = << "prob", 20 >>
  /\ lastNonMealStateChangeTime = now_steady
  /\ tickLog = << >>

\* C15 (meal re-entry is idempotent): an update inside a meal window that
\* finds inMealInclineOverride set changes none of the five inclination
\* variables, draws nothing and logs nothing; one that finds it clear logs
\* the meal line; and after every update the flag tells whether that
\* iteration was inside a meal window, so that the line is logged once per
\* run of consecutive iterations inside a window.
C15_MealReentryIdempotent ==
  [][ /\ (pc = "update" /\ inMealInclineOverride
            /\ SpecInMealWindow(current_hour_local, current_minute_local))
        => /\ UNCHANGED smVars
           /\ tickLog' = << >>
           /\ draws' = << >>
      /\ (pc = "update" /\ ~inMealInclineOverride
            /\ SpecInMealWindow(current_hour_local, current_minute_local))
        => tickLog' = << "INCLINED for meal" >>
      /\ pc = "update"
        => inMealInclineOverride'
             = SpecInMealWindow(current_hour_local, current_minute_local)
      /\ pc # "update" => inMealInclineOverride' = inMealInclineOverride
    ]_vars

\* a second or later iteration inside a meal window has left the state as
\* it was and logged nothing
C15_Witness ==
  /\ pc = "build"
  /\ ticks >= 2
  /\ SpecInMealWindow(current_hour_local, current_minute_local)
  /\ inMealInclineOverride
  /\ currentInclination = 60
  /\ tickLog = << >>
  /\ draws = << >>

\* C16 (timer start and duration are reset together): an update that draws
\* a dwell duration sets lastNonMealStateChangeTime to the iteration's
\* steady-clock instant, and an update that draws none leaves both
\* lastNonMealStateChangeTime and the duration as they were; no other step
\* changes either.
C16_TimerAndDurationTogether ==
  [][ /\ (pc = "update" /\ HasDwellDraw(draws'))
        => /\ lastNonMealStateChangeTime' = now_steady
           /\ Len(SelectSeq(draws', LAMBDA x : x[1] # "prob")) = 1
      /\ (pc = "update" /\ ~HasDwellDraw(draws'))
        => UNCHANGED << lastNonMealStateChangeTime,
                        currentNonMealStateDurationSeconds >>
      /\ pc \in { "loop", "build", "publish", "sleep" }
        => UNCHANGED << lastNonMealStateChangeTime,
                        currentNonMealStateDurationSeconds >>
    ]_vars

\* a minor incline has just begun: the timer is restarted and the longest
\* minor duration drawn
C16_Witness ==
  /\ pc = "build"
  /\ draws = << << "prob", 0 >>, << "minor", 4 >> >>
  /\ lastNonMealStateChangeTime = now_steady
  /\ currentNonMealStateDurationSeconds = 840
  /\ now_steady > 0

\* C17 as stated (a new dwell duration on every regime exit): every update
\* that changes the regime, the entry into a meal incline included, draws a
\* dwell duration.
C17_RedrawOnEveryExit ==
  [][ (pc = "update" /\ currentInclination' # currentInclination)
        => HasDwellDraw(draws') ]_vars

\* C17 as amended: every update that changes the regime to FLAT or to minor
\* incline draws a dwell duration, which becomes the current one; an update
\* that enters a meal incline draws none and keeps the dwell timer and the
\* duration.
C17_RedrawOnNonMealExit ==
  [][ (pc = "update" /\ currentInclination' # currentInclination)
        => IF currentInclination' = 60
           THEN /\ draws' = << >>
                /\ UNCHANGED << lastNonMealStateChangeTime,
                                currentNonMealStateDurationSeconds >>
           ELSE /\ HasDwellDraw(draws')
                /\ \E i \in 1 .. Len(draws') :
                     \/ /\ draws'[i][1] = "flat"
                        /\ currentInclination' = 0
                        /\ currentNonMealStateDurationSeconds'
                             = (45 + draws'[i][2]) * 60
                     \/ /\ draws'[i][1] = "minor"
                        /\ currentInclination' = 30
                        /\ currentNonMealStateDurationSeconds'
                             = (10 + draws'[i][2]) * 60 ]_vars

\* the meal incline has just been left with the longest FLAT duration drawn
C17_Witness ==
  /\ pc = "build"
  /\ tickLog = << "FLAT after meal" >>
  /\ draws = << << "flat", 14 >> >>
  /\ currentNonMealStateDurationSeconds = 3540

SpecAllowedSteps ==
  { << 0, 30 >>, << 0, 60 >>, << 30, 0 >>, << 30, 60 >>, << 60, 0 >> }

\* C18 (allowed inclination steps): an update changes the inclination only
\* by 0->30, 0->60, 30->0, 30->60 or 60->0, and no other step changes it; an
\* update that makes the bed FLAT restarts the dwell timer with a duration
\* of at least 2700 seconds, and a minor incline begins only from FLAT, with
\* the flag clear, when at least the current duration, itself at least 2700
\* seconds, has elapsed since the timer was started.
C18_AllowedSteps ==
  [][ /\ pc = "update"
        => \/ currentInclination' = currentInclination
           \/ << currentInclination, currentInclination' >>
                \in SpecAllowedSteps
      /\ pc \in { "loop", "build", "publish", "sleep" }
        => currentInclination' = currentInclination
      /\ (pc = "update" /\ currentInclination # 0 /\ currentInclination' = 0)
        => /\ lastNonMealStateChangeTime' = now_steady
           /\ currentNonMealStateDurationSeconds' >= 2700
      /\ (pc = "update" /\ currentInclination' = 30
            /\ currentInclination # 30)
        => /\ currentInclination = 0
           /\ ~inMealInclineOverride
           /\ currentNonMealStateDurationSeconds >= 2700
           /\ now_steady - lastNonMealStateChangeTime
                >= currentNonMealStateDurationSeconds ]_vars

\* a meal window has been entered from a minor incline (30 -> 60)
C18_Witness ==
  /\ pc = "build"
  /\ tickLog = << "INCLINED for meal" >>
  /\ currentInclination = 60
  /\ currentNonMealStateDurationSeconds \in SpecMinorDwell

\* C19 (timestamp and meal test agree): every record built has a timestamp
\* inside a meal window [start, start + 30 min) if and only if it carries
\* inclination 60, and a record carrying 60 is labelled "INCLINED".
C19_TimestampAgreesWithMealTest ==
  AfterBuild
    => /\ SpecInMealWindow(telemetryData.timestamp[1],
                           telemetryData.timestamp[2])
            <=> (telemetryData.inclination = 60)
       /\ telemetryData.inclination = 60
            => telemetryData.bedState = "INCLINED"

\* C20 (a minor incline is always left): with iterations that keep occurring
\* and clocks that keep advancing, a bed at 30 degrees is eventually at 0 or
\* at 60 degrees; and after the update of an iteration outside every meal
\* window that leaves the bed at 30 degrees, the time elapsed since
\* lastNonMealStateChangeTime is less than the dwell duration, which is less
\* than 900 seconds.
C20_MinorInclineIsLeft ==
  /\ [] ( ( /\ AfterUpdate
            /\ ~SpecInMealWindow(current_hour_local, current_minute_local)
            /\ currentInclination = 30 )
          => /\ now_steady - lastNonMealStateChangeTime
                  < currentNonMealStateDurationSeconds
             /\ currentNonMealStateDurationSeconds < 900 )
  /\ ( (currentInclination = 30) ~> (currentInclination \in { 0, 60 }) )

\* the longest minor incline has been ended by the expiry of its timer, 840
\* seconds and 168 iterations after it began
C20_Witness ==
  /\ pc = "build"
  /\ tickLog = << "FLAT after minor incline" >>
  /\ currentInclination = 0
  /\ now_steady = 840
  /\ ticks = 168

====
